---------------------------- MODULE Spec2Model ----------------------------
(***************************************************************************)
(* A model of PinterestScraper (src/scrape.ts): the browser session        *)
(* (init / close / newPage), the scroll loop, the four extraction          *)
(* operations and the in-page extraction routines.                         *)
(*                                                                         *)
(* Strings are sequences of one-character strings, so that String.replace, *)
(* RegExp matching and parseInt are computed character by character.       *)
(* An optional value (null / undefined in the source) is a record          *)
(* [some |-> BOOLEAN, v |-> value].                                        *)
(***************************************************************************)
EXTENDS Integers, Sequences, FiniteSets, TLC

(***************************************************************************)
(* Bounds of the model                                                     *)
(***************************************************************************)
\* number of calls the caller may have in flight at once
MaxInFlight == 2
\* number of calls the caller makes during one behaviour
MaxCalls == 3
\* browser processes launched during one behaviour
MaxLaunch == 2
\* page contexts created during one behaviour
MaxPages == 2
\* largest scrollCount the caller supplies (the default is larger)
MaxScroll == 1
\* number of segments an input string is built from
MaxSegs == 2

\* the requests a page makes that the model follows
MaxReqs == 2

(***************************************************************************)
(* Optional values and strings                                             *)
(***************************************************************************)
None == [some |-> FALSE, v |-> <<>>]

Some(s) == [some |-> TRUE, v |-> s]

\* the ?? operator on an optional string: the value, or the default d
Coalesce(o, d) == IF o.some THEN o.v ELSE d

Digits == {"0", "1", "2", "3", "4", "5", "6", "7", "8", "9"}

DigitVal(c) ==
  CASE c = "0" -> 0 [] c = "1" -> 1 [] c = "2" -> 2 [] c = "3" -> 3
    [] c = "4" -> 4 [] c = "5" -> 5 [] c = "6" -> 6 [] c = "7" -> 7
    [] c = "8" -> 8 [] c = "9" -> 9

\* s has pat at position i
MatchAt(s, pat, i) ==
  /\ i >= 1
  /\ i + Len(pat) - 1 <= Len(s)
  /\ SubSeq(s, i, i + Len(pat) - 1) = pat

\* the positions of s where pat occurs
Occurrences(s, pat) == {i \in 1..Len(s) : MatchAt(s, pat, i)}

Min(S) == CHOOSE x \in S : \A y \in S : x <= y

\* String.prototype.replace(pat, rep) with a string pattern: the first
\* occurrence only
ReplaceFirst(s, pat, rep) ==
  IF Occurrences(s, pat) = {} THEN s
  ELSE LET i == Min(Occurrences(s, pat))
       IN SubSeq(s, 1, i - 1) \o rep \o SubSeq(s, i + Len(pat), Len(s))

LowRes == <<"2", "3", "6", "x">>

HighRes == <<"1", "2", "0", "0", "x">>

\* .replace("236x", "1200x")
Rewrite(s) == ReplaceFirst(s, LowRes, HighRes)

PinPrefix == <<"/", "p", "i", "n", "/">>

\* the maximal run of digits of s that starts at position i
RECURSIVE DigitRun(_, _)
DigitRun(s, i) ==
  IF i <= Len(s) /\ s[i] \in Digits THEN <<s[i]>> \o DigitRun(s, i + 1) ELSE <<>>

\* the positions where /\/pin\/(\d+)/ matches
PinMatches(s) ==
  {i \in 1..Len(s) : MatchAt(s, PinPrefix, i) /\ DigitRun(s, i + Len(PinPrefix)) # <<>>}

\* href.match(/\/pin\/(\d+)/)?.[1] ?? "" : the capture group of the leftmost
\* match, or the empty string
PinIdOf(s) ==
  IF PinMatches(s) = {} THEN <<>>
  ELSE DigitRun(s, Min(PinMatches(s)) + Len(PinPrefix))

\* a replace without the g flag: the first non-digit character only
RECURSIVE StripFirstNonDigit(_)
StripFirstNonDigit(s) ==
  IF s = <<>> THEN <<>>
  ELSE IF Head(s) \in Digits THEN <<Head(s)>> \o StripFirstNonDigit(Tail(s))
       ELSE Tail(s)

\* text.replace(/\D/g, "") : every non-digit character removed
RECURSIVE StripNonDigits(_)
StripNonDigits(s) ==
  IF s = <<>> THEN <<>>
  ELSE (IF Head(s) \in Digits THEN <<Head(s)>> ELSE <<>>) \o StripNonDigits(Tail(s))

NaN == -1

\* parseInt of a string of digits: NaN for the empty string
RECURSIVE DecimalValue(_)
DecimalValue(s) ==
  IF s = <<>> THEN 0 ELSE 10 * DecimalValue(SubSeq(s, 1, Len(s) - 1)) + DigitVal(s[Len(s)])

ParseInt(s) ==
  IF s = <<>> \/ s[1] \notin Digits THEN NaN
  ELSE DecimalValue(DigitRun(s, 1))

\* x || 0 on a number: NaN and 0 are falsy
OrZero(x) == IF x = NaN \/ x = 0 THEN 0 ELSE x

\* parseInt(el?.textContent?.replace(/\D/g, "") ?? "0") || 0, for the text of
\* an optional element
ParseCount(text) ==
  OrZero(ParseInt(IF text.some THEN StripNonDigits(text.v) ELSE <<"0">>))

(***************************************************************************)
(* The documents the in-page routines run against                          *)
(***************************************************************************)
\* el?.getAttribute(name) / el?.textContent on an optional element
Attr(el, name) == IF el.some THEN el.v[name] ELSE None

\* the extraction callback of searchPins, element by element
RECURSIVE SearchExtract(_)
SearchExtract(els) ==
  IF els = <<>> THEN <<>>
  ELSE LET el == Head(els)
           href == Coalesce(Attr(el.link, "href"), <<>>)
           pinId == PinIdOf(href)
           src == Attr(el.img, "src")
           image == IF src.some THEN src.v
                    ELSE Coalesce(Attr(el.img, "dataSrc"), <<>>)
       IN (IF pinId = <<>> THEN <<>> ELSE <<Rewrite(image)>>)
            \o SearchExtract(Tail(els))

\* pins.filter(e => e != "")
RECURSIVE NonEmpty(_)
NonEmpty(urls) ==
  IF urls = <<>> THEN <<>>
  ELSE (IF Head(urls) = <<>> THEN <<>> ELSE <<Head(urls)>>) \o NonEmpty(Tail(urls))

Origin ==
  <<"h", "t", "t", "p", "s", ":", "/", "/", "w", "w", "w", ".",
    "p", "i", "n", "t", "e", "r", "e", "s", "t", ".", "c", "o", "m">>

\* an extraction callback that keeps the elements without an identifier
RECURSIVE BoardExtractNoGate(_)
BoardExtractNoGate(els) ==
  IF els = <<>> THEN <<>>
  ELSE LET el == Head(els)
           href == Coalesce(Attr(el.link, "href"), <<>>)
       IN << [id |-> PinIdOf(href),
              imageUrl |-> Coalesce(Attr(el.img, "src"), <<>>),
              pinterestUrl |-> Origin \o href] >>
            \o BoardExtractNoGate(Tail(els))

\* the extraction callback of getBoardPins, element by element
RECURSIVE BoardExtract(_)
BoardExtract(els) ==
  IF els = <<>> THEN <<>>
  ELSE LET el == Head(els)
           href == Coalesce(Attr(el.link, "href"), <<>>)
           pinId == PinIdOf(href)
       IN (IF pinId = <<>> THEN <<>>
           ELSE << [id |-> pinId,
                    imageUrl |-> Coalesce(Attr(el.img, "src"), <<>>),
                    pinterestUrl |-> Origin \o href] >>)
            \o BoardExtract(Tail(els))

\* the extraction callback of getPinDetails
PinExtract(doc, url) ==
  [id |-> PinIdOf(url),
   imageUrl |-> Coalesce(Attr(doc.img, "src"), <<>>),
   pinterestUrl |-> url,
   repins |-> ParseCount(Attr(doc.saveCount, "textContent"))]

\* return pin.id ? pin : null
PinResult(pin) == IF pin.id # <<>> THEN Some(pin) ELSE None

\* the extraction callback of getUserProfile, board row by board row
RECURSIVE ProfileExtract(_)
ProfileExtract(rows) ==
  IF rows = <<>> THEN <<>>
  ELSE LET el == Head(rows)
       IN << [pinCount |-> ParseCount(Attr(el.count, "textContent")),
              coverImage |-> Coalesce(Attr(el.img, "src"), <<>>)] >>
            \o ProfileExtract(Tail(rows))

\* what an operation returns for the value its extraction callback produced
Extract(kind, doc, url) ==
  CASE kind = "searchPins" -> NonEmpty(SearchExtract(doc))
    [] kind = "getBoardPins" -> BoardExtract(doc)
    [] kind = "getPinDetails" -> PinResult(PinExtract(doc, url))
    [] kind = "getUserProfile" -> ProfileExtract(doc)

(***************************************************************************)
(* The inputs: pin URLs and the documents a page shows                     *)
(***************************************************************************)
\* the strings made of at most n segments
RECURSIVE Strings(_, _)
Strings(segs, n) ==
  IF n = 0 THEN {<<>>}
  ELSE LET S == Strings(segs, n - 1) IN S \cup {s \o g : s \in S, g \in segs}

HrefSegs ==
  {PinPrefix, PinPrefix \o <<"1">>, <<"/", "p", "i", "n">>, <<"0", "7">>, <<"2">>,
   <<"/">>, <<"x">>}

Hrefs == Strings(HrefSegs, MaxSegs)

ImgSegs == {LowRes, HighRes, <<"/">>, <<"a">>, <<"2", "3", "6">>}

ImgUrls == Strings(ImgSegs, MaxSegs)

CountSegs == {<<"1">>, <<"2">>, <<"0">>, <<".">>, <<"K">>, <<"-">>, <<" ", "s", "a", "v", "e", "s">>}

SavesText == <<"1", ".", "2", "K", " ", "s", "a", "v", "e", "s">>

CountTexts == Strings(CountSegs, MaxSegs) \cup {SavesText}

PinHref == <<"/", "p", "i", "n", "/", "4", "2", "/">>

LowUrl == <<"/", "2", "3", "6", "x", "/", "a">>

Link(h) == Some([href |-> h])

Img(src, dataSrc) == Some([src |-> src, dataSrc |-> dataSrc])

Text(x) == Some([textContent |-> x])

\* pin cards that differ in their link
GateEls ==
  {[link |-> l, img |-> Img(Some(LowUrl), None)] :
     l \in {None, Link(None)} \cup {Link(Some(h)) : h \in Hrefs}}

\* pin cards that differ in their image
ImgEls ==
  {[link |-> Link(Some(PinHref)), img |-> i] :
     i \in {None, Img(None, None)}
           \cup {Img(Some(u), None) : u \in ImgUrls}
           \cup {Img(None, Some(u)) : u \in ImgUrls}
           \cup {Img(Some(<<>>), Some(u)) : u \in {LowUrl}}}

PairEls ==
  {[link |-> l, img |-> i] :
     l \in {None, Link(Some(PinHref)), Link(Some(<<"/", "x">>))},
     i \in {None, Img(Some(LowUrl), None), Img(Some(<<"/", "a">>), None)}}

PinCards ==
  {<<>>} \cup {<<e>> : e \in GateEls \cup ImgEls}
         \cup {<<e, f>> : e \in PairEls, f \in PairEls}

PinPages(url) ==
  {[img |-> i, saveCount |-> None] :
     i \in {None, Img(None, None), Img(Some(LowUrl), None)}}
  \cup (IF url = PinHref
        THEN {[img |-> Img(Some(u), None), saveCount |-> None] : u \in ImgUrls}
             \cup {[img |-> None, saveCount |-> Text(Some(x))] : x \in CountTexts}
        ELSE {})

BoardRows ==
  {[count |-> c, img |-> Img(Some(LowUrl), None)] :
     c \in {None} \cup {Text(Some(x)) : x \in CountTexts}}

ProfilePages ==
  {<<>>} \cup {<<r>> : r \in BoardRows}
         \cup {<<r, [count |-> None, img |-> None]>> : r \in BoardRows}

\* the inputs of SeqSpec
AllUrls == Hrefs \cup {PinHref}

AllDocs(kind, url) ==
  CASE kind \in {"searchPins", "getBoardPins"} -> PinCards
    [] kind = "getPinDetails" -> PinPages(url)
    [] kind = "getUserProfile" -> ProfilePages

\* the inputs of Spec: one pin URL with an identifier and one without, one
\* document per operation with something to extract and one without
FewUrls == {PinHref, <<"/", "x">>}

FewDocs(kind, url) ==
  CASE kind \in {"searchPins", "getBoardPins"} ->
         {<<>>, <<[link |-> Link(Some(PinHref)), img |-> Img(Some(LowUrl), None)]>>}
    [] kind = "getPinDetails" ->
         {[img |-> None, saveCount |-> None],
          [img |-> Img(Some(LowUrl), None), saveCount |-> Text(Some(SavesText))]}
    [] kind = "getUserProfile" ->
         {<<>>, <<[count |-> Text(Some(SavesText)), img |-> None]>>}

\* the inputs a specification draws from: all of them for the awaiting caller,
\* few for the caller that does not wait
Urls(all) == IF all THEN AllUrls ELSE FewUrls

Docs(all, kind, url) == IF all THEN AllDocs(kind, url) ELSE FewDocs(kind, url)

(***************************************************************************)
(* The session                                                             *)
(***************************************************************************)
VARIABLES
  options,     \* this.options
  browser,     \* this.browser: 0 for null, else the browser process it refers to
  procs,       \* the browser processes launched: "none", "live" or "terminated"
  closeCalls,  \* per browser process, how often browser.close() was invoked
  launches,    \* how often puppeteer.launch() was invoked
  pages,       \* the page contexts created: status and owning process
  pageReqs,    \* how often browser.newPage() was invoked
  calls,       \* the caller's calls: per slot, the call in flight or completed last
  started,     \* how many calls the caller has made
  last         \* the kind of the call the caller made last

vars ==
  <<options, browser, procs, closeCalls, launches, pages, pageReqs, calls, started, last>>

DEFAULT_OPTIONS == [headless |-> TRUE, scrollCount |-> 3, delay |-> 2000]

\* { ...DEFAULT_OPTIONS, ...options }
MergeOptions(supplied) ==
  [f \in DOMAIN DEFAULT_OPTIONS |->
     IF f \in DOMAIN supplied THEN supplied[f] ELSE DEFAULT_OPTIONS[f]]

\* the option objects the caller constructs the scraper with
SuppliedOptions ==
  { <<>>,
    [headless |-> TRUE, scrollCount |-> 0, delay |-> 0],
    [headless |-> FALSE, delay |-> 500] }
  \cup { [scrollCount |-> n] : n \in 0..MaxScroll }

Ops == {"searchPins", "getBoardPins", "getPinDetails", "getUserProfile"}

NoCall ==
  [kind |-> "none", pc |-> "idle", b |-> 0, page |-> 0, acquired |-> FALSE,
   prev |-> "none", loop |-> "none", i |-> 0, scrolls |-> 0, evals |-> 0, delays |-> 0,
   waited |-> 0, settled |-> 0,
   navs |-> 0, navigated |-> FALSE, closes |-> 0, terminated |-> 0, pending |-> "none", error |-> "none",
   outcome |-> "pending", url |-> <<>>, doc |-> <<>>, result |-> <<>>,
   requests |-> <<>>]

Init ==
  /\ options \in {MergeOptions(o) : o \in SuppliedOptions}
  /\ browser = 0
  /\ procs = [b \in 1..MaxLaunch |-> "none"]
  /\ closeCalls = [b \in 1..MaxLaunch |-> 0]
  /\ launches = 0
  /\ pages = [p \in 1..MaxPages |-> [status |-> "none", b |-> 0]]
  /\ pageReqs = 0
  /\ calls = [t \in 1..MaxInFlight |-> NoCall]
  /\ started = 0
  /\ last = "none"

\* a call completes: the promise the caller holds settles
Settle(c, outcome, error, result) ==
  [c EXCEPT !.pc = "done", !.outcome = outcome, !.error = error, !.result = result]

\* the caller makes a call of the given kind, in the first slot that has no call
\* in flight
Begin(t, kind) ==
  /\ calls[t].pc \in {"idle", "done"}
  /\ \A u \in 1..(t - 1) : calls[u].pc \notin {"idle", "done"}
  /\ started < MaxCalls
  /\ started' = started + 1
  /\ last' = kind

(***************************************************************************)
(* init()                                                                  *)
(***************************************************************************)
\* init() is called: puppeteer.launch() is invoked
InitCall(t) ==
  /\ Begin(t, "init")
  /\ launches < MaxLaunch
  /\ launches' = launches + 1
  /\ calls' = [calls EXCEPT ![t] =
       [NoCall EXCEPT !.kind = "init", !.pc = "launch", !.b = launches + 1,
                      !.prev = last]]
  /\ UNCHANGED <<options, browser, procs, closeCalls, pages, pageReqs>>

\* the launch resolves: the process runs and this.browser is assigned
LaunchResolve(t) ==
  /\ calls[t].pc = "launch"
  /\ procs' = [procs EXCEPT ![calls[t].b] = "live"]
  /\ browser' = calls[t].b
  /\ calls' = [calls EXCEPT ![t] = Settle(@, "returned", "none", <<>>)]
  /\ UNCHANGED <<options, closeCalls, launches, pages, pageReqs, started, last>>

\* the launch rejects: no process, this.browser is not assigned
LaunchReject(t) ==
  /\ calls[t].pc = "launch"
  /\ calls' = [calls EXCEPT ![t] = Settle(@, "rejected", "LaunchError", <<>>)]
  /\ UNCHANGED <<options, browser, procs, closeCalls, launches, pages, pageReqs, started, last>>

init(t) == InitCall(t) \/ LaunchResolve(t) \/ LaunchReject(t)

(***************************************************************************)
(* close()                                                                 *)
(***************************************************************************)
\* a close() that clears the handle without closing the browser
CloseCallDetach(t) ==
  /\ Begin(t, "close")
  /\ browser' = 0
  /\ calls' = [calls EXCEPT ![t] =
       Settle([NoCall EXCEPT !.kind = "close", !.prev = last],
              "returned", "none", <<>>)]
  /\ UNCHANGED <<options, procs, closeCalls, launches, pages, pageReqs>>

\* close() is called: with a handle browser.close() is invoked, without one
\* the call returns at once
CloseCall(t) ==
  /\ Begin(t, "close")
  /\ IF browser # 0
     THEN /\ closeCalls' = [closeCalls EXCEPT ![browser] = @ + 1]
          /\ calls' = [calls EXCEPT ![t] =
               [NoCall EXCEPT !.kind = "close", !.pc = "browserClose",
                              !.b = browser, !.terminated = 1, !.prev = last]]
     ELSE /\ calls' = [calls EXCEPT ![t] =
               Settle([NoCall EXCEPT !.kind = "close", !.prev = last],
                      "returned", "none", <<>>)]
          /\ UNCHANGED closeCalls
  /\ UNCHANGED <<options, browser, procs, launches, pages, pageReqs>>

\* a close() that forgets to clear the handle
BrowserCloseKeepHandle(t) ==
  /\ calls[t].pc = "browserClose"
  /\ procs' = [procs EXCEPT ![calls[t].b] = "terminated"]
  /\ pages' = [p \in DOMAIN pages |->
       IF pages[p].b = calls[t].b /\ pages[p].status = "open"
       THEN [pages[p] EXCEPT !.status = "closed"] ELSE pages[p]]
  /\ calls' = [calls EXCEPT ![t] = Settle(@, "returned", "none", <<>>)]
  /\ UNCHANGED <<options, browser, closeCalls, launches, pageReqs, started, last>>

\* a close() whose browser.close() waits until no extraction operation is in
\* flight
BrowserCloseWaits(t) ==
  /\ calls[t].pc = "browserClose"
  /\ \A u \in DOMAIN calls :
       calls[u].kind \in Ops => calls[u].pc \in {"idle", "done"}
  /\ procs' = [procs EXCEPT ![calls[t].b] = "terminated"]
  /\ pages' = [p \in DOMAIN pages |->
       IF pages[p].b = calls[t].b /\ pages[p].status = "open"
       THEN [pages[p] EXCEPT !.status = "closed"] ELSE pages[p]]
  /\ browser' = 0
  /\ calls' = [calls EXCEPT ![t] = Settle(@, "returned", "none", <<>>)]
  /\ UNCHANGED <<options, closeCalls, launches, pageReqs, started, last>>

\* browser.close() resolves: the process and all its page contexts are gone,
\* and this.browser = null
BrowserCloseResolve(t) ==
  /\ calls[t].pc = "browserClose"
  /\ procs' = [procs EXCEPT ![calls[t].b] = "terminated"]
  /\ pages' = [p \in DOMAIN pages |->
       IF pages[p].b = calls[t].b /\ pages[p].status = "open"
       THEN [pages[p] EXCEPT !.status = "closed"] ELSE pages[p]]
  /\ browser' = 0
  /\ calls' = [calls EXCEPT ![t] = Settle(@, "returned", "none", <<>>)]
  /\ UNCHANGED <<options, closeCalls, launches, pageReqs, started, last>>

close(t) == CloseCall(t) \/ BrowserCloseResolve(t)

(***************************************************************************)
(* newPage() and the four extraction operations                            *)
(***************************************************************************)
PageOpen(c) == c.page # 0 /\ pages[c.page].status = "open"

\* the error a rejected page call carries: err while the page is there, the
\* browser's own error once the page is gone
PageError(c, err) == IF PageOpen(c) THEN err ELSE "TargetClosed"

\* a newPage() without its handle check: browser.newPage() on null
OpCallUnchecked(t, kind, url) ==
  /\ Begin(t, kind)
  /\ IF browser = 0
     THEN /\ calls' = [calls EXCEPT ![t] =
               Settle([NoCall EXCEPT !.kind = kind, !.url = url, !.prev = last],
                      "rejected", "TypeError", <<>>)]
          /\ UNCHANGED pageReqs
     ELSE /\ pageReqs < MaxPages
          /\ pageReqs' = pageReqs + 1
          /\ calls' = [calls EXCEPT ![t] =
               [NoCall EXCEPT !.kind = kind, !.url = url, !.prev = last,
                              !.pc = "newPage", !.b = browser,
                              !.page = pageReqs + 1]]
  /\ UNCHANGED <<options, browser, procs, closeCalls, launches, pages>>

\* an operation is called and runs up to its first await: newPage() throws
\* without a handle, and invokes browser.newPage() with one
OpCall(t, kind, url) ==
  /\ Begin(t, kind)
  /\ IF browser = 0
     THEN /\ calls' = [calls EXCEPT ![t] =
               Settle([NoCall EXCEPT !.kind = kind, !.url = url, !.prev = last],
                      "rejected", "NotInitialized", <<>>)]
          /\ UNCHANGED pageReqs
     ELSE /\ pageReqs < MaxPages
          /\ pageReqs' = pageReqs + 1
          /\ calls' = [calls EXCEPT ![t] =
               [NoCall EXCEPT !.kind = kind, !.url = url, !.prev = last,
                              !.pc = "newPage", !.b = browser,
                              !.page = pageReqs + 1]]
  /\ UNCHANGED <<options, browser, procs, closeCalls, launches, pages>>

searchPins(t) == OpCall(t, "searchPins", <<>>)

getBoardPins(t) == OpCall(t, "getBoardPins", <<>>)

getPinDetails(t, urls) == \E url \in urls : OpCall(t, "getPinDetails", url)

getUserProfile(t) == OpCall(t, "getUserProfile", <<>>)

\* browser.newPage() resolves with a new page context; setUserAgent is invoked
NewPageResolve(t) ==
  /\ calls[t].pc = "newPage"
  /\ procs[calls[t].b] = "live"
  /\ pages' = [pages EXCEPT ![calls[t].page] = [status |-> "open", b |-> calls[t].b]]
  /\ calls' = [calls EXCEPT ![t].pc = "setUserAgent"]
  /\ UNCHANGED <<options, browser, procs, closeCalls, launches, pageReqs, started, last>>

\* browser.newPage() rejects on a terminated browser: the operation rejects
NewPageReject(t) ==
  /\ calls[t].pc = "newPage"
  /\ procs[calls[t].b] # "live"
  /\ calls' = [calls EXCEPT ![t] =
       Settle([@ EXCEPT !.page = 0], "rejected", "TargetClosed", <<>>)]
  /\ UNCHANGED <<options, browser, procs, closeCalls, launches, pages, pageReqs, started, last>>

PrepareSteps == {"setUserAgent", "setViewport", "setRequestInterception"}

\* a step of the page preparation resolves and the next one is invoked; after
\* the last one newPage() returns the page and the operation invokes page.goto
PrepareResolve(t) ==
  /\ calls[t].pc \in PrepareSteps
  /\ PageOpen(calls[t])
  /\ calls' = [calls EXCEPT ![t] =
       CASE @.pc = "setUserAgent" -> [@ EXCEPT !.pc = "setViewport"]
         [] @.pc = "setViewport" -> [@ EXCEPT !.pc = "setRequestInterception"]
         [] @.pc = "setRequestInterception" ->
              [@ EXCEPT !.pc = "goto", !.acquired = TRUE, !.navs = @ + 1]]
  /\ UNCHANGED <<options, browser, procs, closeCalls, launches, pages, pageReqs, started, last>>

\* a step of the page preparation rejects: newPage() rejects, and so does the
\* operation, which called it outside its try block
PrepareReject(t) ==
  /\ calls[t].pc \in PrepareSteps
  /\ calls' = [calls EXCEPT ![t] =
       Settle(@, "rejected", PageError(@, "ProtocolError"), <<>>)]
  /\ UNCHANGED <<options, browser, procs, closeCalls, launches, pages, pageReqs, started, last>>

newPage(t) == NewPageResolve(t) \/ PrepareResolve(t) \/ PrepareReject(t)

\* the resource types of the requests a page makes
ResourceTypes == {"document", "stylesheet", "image", "font", "script"}

\* a request the browser has paused for the page's "request" listeners
InterceptedRequest(type) ==
  [resourceType |-> type, aborts |-> 0, continues |-> 0, overrides |-> FALSE]

\* a handler without its else branch: what it aborted it continues as well
RequestHandlerNoElse(req) ==
  LET seen == IF req.resourceType \in {"font", "stylesheet"}
              THEN [req EXCEPT !.aborts = @ + 1]
              ELSE req
  IN [seen EXCEPT !.continues = @ + 1]

\* the "request" listener of newPage(): req.abort() for fonts and stylesheets,
\* req.continue() without overrides for everything else
RequestHandler(req) ==
  IF req.resourceType \in {"font", "stylesheet"}
  THEN [req EXCEPT !.aborts = @ + 1]
  ELSE [req EXCEPT !.continues = @ + 1]

\* the awaited calls and timers during which the page loads
Loading == {"goto", "settle", "scrollEval", "scrollDelay", "extract"}

\* the page of call t makes a request: the browser pauses it, the page emits
\* "request" and the listener that newPage() registered runs
onRequest(t) ==
  /\ calls[t].acquired
  /\ calls[t].pc \in Loading
  /\ PageOpen(calls[t])
  /\ Len(calls[t].requests) < MaxReqs
  /\ \E type \in ResourceTypes :
       calls' = [calls EXCEPT ![t].requests =
                   Append(@, RequestHandler(InterceptedRequest(type)))]
  /\ UNCHANGED <<options, browser, procs, closeCalls, launches, pages, pageReqs, started, last>>

\* a try block without its finally: the operation rejects at once
ThrowLeak(c, err) == Settle(c, "rejected", err, <<>>)

\* the try block throws: the finally block invokes page.close()
Throw(c, err) ==
  [c EXCEPT !.pc = "pageClose", !.pending = "throw", !.error = err, !.closes = @ + 1]

\* a loop condition that lets one iteration too many through
LoopTestOffByOne(c) ==
  IF c.i <= options.scrollCount
  THEN [c EXCEPT !.pc = "scrollEval", !.loop = "running", !.scrolls = @ + 1]
  ELSE [c EXCEPT !.pc = "extract", !.loop = "returned"]

\* scroll() reaches its loop condition: another page.evaluate, or it returns and
\* the operation invokes the extracting page.evaluate
LoopTest(c) ==
  IF c.i < options.scrollCount
  THEN [c EXCEPT !.pc = "scrollEval", !.loop = "running", !.scrolls = @ + 1]
  ELSE [c EXCEPT !.pc = "extract", !.loop = "returned"]

\* page.goto resolves
GotoResolve(t) ==
  /\ calls[t].pc = "goto"
  /\ PageOpen(calls[t])
  /\ calls' = [calls EXCEPT ![t] =
       IF @.kind \in {"getPinDetails", "getUserProfile"}
       THEN [@ EXCEPT !.pc = "settle", !.navigated = TRUE]
       ELSE LoopTest([@ EXCEPT !.navigated = TRUE])]
  /\ UNCHANGED <<options, browser, procs, closeCalls, launches, pages, pageReqs, started, last>>

\* a page.goto that is tried once more after it rejected
GotoRejectRetry(t) ==
  /\ calls[t].pc = "goto"
  /\ calls' = [calls EXCEPT ![t] =
       IF @.navs < 2
       THEN [@ EXCEPT !.navs = @ + 1]
       ELSE Throw(@, PageError(@, "NavigationTimeout"))]
  /\ UNCHANGED <<options, browser, procs, closeCalls, launches, pages, pageReqs, started, last>>

\* page.goto rejects: the 30 s timeout
GotoReject(t) ==
  /\ calls[t].pc = "goto"
  /\ calls' = [calls EXCEPT ![t] = Throw(@, PageError(@, "NavigationTimeout"))]
  /\ UNCHANGED <<options, browser, procs, closeCalls, launches, pages, pageReqs, started, last>>

SettleMs == 2000

\* a fixed delay after which getPinDetails scrolls as well
SettleElapsedScrollAll(t) ==
  /\ calls[t].pc = "settle"
  /\ calls' = [calls EXCEPT ![t] = LoopTest([@ EXCEPT !.settled = @ + SettleMs])]
  /\ UNCHANGED <<options, browser, procs, closeCalls, launches, pages, pageReqs, started, last>>

\* the fixed delay of getPinDetails and getUserProfile has elapsed
SettleElapsed(t) ==
  /\ calls[t].pc = "settle"
  /\ calls' = [calls EXCEPT ![t] =
       IF @.kind = "getUserProfile"
       THEN LoopTest([@ EXCEPT !.settled = @ + SettleMs])
       ELSE [@ EXCEPT !.settled = @ + SettleMs, !.pc = "extract"]]
  /\ UNCHANGED <<options, browser, procs, closeCalls, launches, pages, pageReqs, started, last>>

\* a scroll() that sets the timer without awaiting it
ScrollEvalResolveNoAwait(t) ==
  /\ calls[t].pc = "scrollEval"
  /\ PageOpen(calls[t])
  /\ calls' = [calls EXCEPT ![t] =
       LoopTest([@ EXCEPT !.evals = @ + 1, !.i = @ + 1])]
  /\ UNCHANGED <<options, browser, procs, closeCalls, launches, pages, pageReqs, started, last>>

\* the scrolling page.evaluate resolves: the timer is set
ScrollEvalResolve(t) ==
  /\ calls[t].pc = "scrollEval"
  /\ PageOpen(calls[t])
  /\ calls' = [calls EXCEPT ![t] = [@ EXCEPT !.pc = "scrollDelay", !.evals = @ + 1]]
  /\ UNCHANGED <<options, browser, procs, closeCalls, launches, pages, pageReqs, started, last>>

\* the scrolling page.evaluate rejects: scroll() rejects
ScrollEvalReject(t) ==
  /\ calls[t].pc = "scrollEval"
  /\ calls' = [calls EXCEPT ![t] =
       Throw([@ EXCEPT !.loop = "rejected", !.evals = @ + 1],
             PageError(@, "EvaluationError"))]
  /\ UNCHANGED <<options, browser, procs, closeCalls, launches, pages, pageReqs, started, last>>

\* a loop that counts the configured scrollCount down instead of i up
ScrollDelayElapsedCountdown(t) ==
  /\ calls[t].pc = "scrollDelay"
  /\ options' = [options EXCEPT !.scrollCount = @ - 1]
  /\ calls' = [calls EXCEPT ![t] =
       IF options.scrollCount - 1 > 0
       THEN [@ EXCEPT !.delays = @ + 1, !.waited = @ + options.delay,
                      !.pc = "scrollEval", !.scrolls = @ + 1]
       ELSE [@ EXCEPT !.delays = @ + 1, !.waited = @ + options.delay,
                      !.pc = "extract", !.loop = "returned"]]
  /\ UNCHANGED <<browser, procs, closeCalls, launches, pages, pageReqs, started, last>>

\* the timer fires: i++ and the loop condition
ScrollDelayElapsed(t) ==
  /\ calls[t].pc = "scrollDelay"
  /\ calls' = [calls EXCEPT ![t] =
       LoopTest([@ EXCEPT !.delays = @ + 1, !.waited = @ + options.delay,
                          !.i = @ + 1])]
  /\ UNCHANGED <<options, browser, procs, closeCalls, launches, pages, pageReqs, started, last>>

scroll(t) == ScrollEvalResolve(t) \/ ScrollEvalReject(t) \/ ScrollDelayElapsed(t)

\* the extracting page.evaluate resolves with what the callback computed on the
\* document the page shows; the operation returns through its finally block
ExtractResolve(t, all) ==
  /\ calls[t].pc = "extract"
  /\ PageOpen(calls[t])
  /\ \E doc \in Docs(all, calls[t].kind, calls[t].url) :
       calls' = [calls EXCEPT ![t] =
         [@ EXCEPT !.pc = "pageClose", !.pending = "return", !.doc = doc,
                   !.closes = @ + 1,
                   !.result = Extract(calls[t].kind, doc, calls[t].url)]]
  /\ UNCHANGED <<options, browser, procs, closeCalls, launches, pages, pageReqs, started, last>>

\* the extracting page.evaluate rejects
ExtractReject(t) ==
  /\ calls[t].pc = "extract"
  /\ calls' = [calls EXCEPT ![t] = Throw(@, PageError(@, "EvaluationError"))]
  /\ UNCHANGED <<options, browser, procs, closeCalls, launches, pages, pageReqs, started, last>>

\* finally: page.close() resolves and the operation completes as its try block did
PageCloseResolve(t) ==
  /\ calls[t].pc = "pageClose"
  /\ PageOpen(calls[t])
  /\ pages' = [pages EXCEPT ![calls[t].page].status = "closed"]
  /\ calls' = [calls EXCEPT ![t] =
       IF @.pending = "return"
       THEN Settle(@, "returned", "none", @.result)
       ELSE Settle(@, "rejected", @.error, <<>>)]
  /\ UNCHANGED <<options, browser, procs, closeCalls, launches, pageReqs, started, last>>

\* finally: page.close() rejects on a page that is gone with its browser, and
\* the operation rejects with that error
PageCloseReject(t) ==
  /\ calls[t].pc = "pageClose"
  /\ ~PageOpen(calls[t])
  /\ calls' = [calls EXCEPT ![t] = Settle(@, "rejected", "TargetClosed", <<>>)]
  /\ UNCHANGED <<options, browser, procs, closeCalls, launches, pages, pageReqs, started, last>>

(***************************************************************************)
(* The specifications                                                      *)
(***************************************************************************)
\* a page call meets a page context that went with its browser
Gone(t) == NewPageReject(t) \/ PageCloseReject(t)

\* any other step of call t
Step(t, all) ==
  \/ init(t)
  \/ close(t)
  \/ searchPins(t)
  \/ getBoardPins(t)
  \/ getPinDetails(t, Urls(all))
  \/ getUserProfile(t)
  \/ newPage(t)
  \/ GotoResolve(t)
  \/ GotoReject(t)
  \/ SettleElapsed(t)
  \/ scroll(t)
  \/ ExtractResolve(t, all)
  \/ ExtractReject(t)
  \/ PageCloseResolve(t)

\* a caller that does not wait for a call to complete before the next one
Next == \E t \in 1..MaxInFlight : Step(t, FALSE) \/ Gone(t)

Spec == Init /\ [][Next]_vars

\* the browser call or timer that call t awaits resolves, rejects or fires
Resolves(t) ==
  \/ LaunchResolve(t)
  \/ LaunchReject(t)
  \/ BrowserCloseResolve(t)
  \/ newPage(t)
  \/ Gone(t)
  \/ GotoResolve(t)
  \/ GotoReject(t)
  \/ SettleElapsed(t)
  \/ scroll(t)
  \/ ExtractResolve(t, FALSE)
  \/ ExtractReject(t)
  \/ PageCloseResolve(t)

\* no call waits forever for what it awaits: the browser answers every call
\* made to it, page.goto within its 30 s timeout, and every timer fires
FairSpec == Spec /\ \A t \in 1..MaxInFlight : WF_vars(Resolves(t))

\* a caller that awaits every call, as src/test.ts does, with its options or
\* with none; no step of an awaited call meets a terminated browser (SeqNotGone)
TestOptions == [headless |-> TRUE, scrollCount |-> 0, delay |-> 0]

InitSeq == Init /\ options \in {MergeOptions(TestOptions), MergeOptions(<<>>)}

NextSeq == Step(1, TRUE)

SeqSpec == InitSeq /\ [][NextSeq]_vars

\* an awaiting caller, and pages whose requests are followed
InitReq == Init /\ options \in {MergeOptions(TestOptions), MergeOptions([scrollCount |-> 1])}

NextReq == Step(1, FALSE) \/ onRequest(1)

ReqSpec == InitReq /\ [][NextReq]_vars

SeqNotGone == ~ENABLED Gone(1)

TypeOK ==
  /\ browser \in 0..MaxLaunch
  /\ launches \in 0..MaxLaunch
  /\ pageReqs \in 0..MaxPages
  /\ \A t \in DOMAIN calls : calls[t].kind \in Ops \cup {"none", "init", "close"}

(***************************************************************************)
(* Properties of the session                                               *)
(***************************************************************************)
Slots == DOMAIN calls

Completed(c) == c.pc = "done"

\* C1: when searchPins, getBoardPins, getPinDetails or getUserProfile returns
\* or rejects, the page context that newPage() handed to it is closed: on
\* success, on a navigation timeout and on a throwing evaluation alike.
C1_PageReleased ==
  \A t \in Slots :
    LET c == calls[t]
    IN (c.kind \in Ops /\ Completed(c) /\ c.acquired) => pages[c.page].status = "closed"

\* one operation has returned and another has rejected with the error of a
\* throwing evaluation, each having held a page context
C1_Witness ==
  \E t, u \in Slots :
    /\ calls[t].kind \in Ops /\ Completed(calls[t]) /\ calls[t].acquired
    /\ calls[t].outcome = "returned"
    /\ calls[u].kind \in Ops /\ Completed(calls[u]) /\ calls[u].acquired
    /\ calls[u].outcome = "rejected" /\ calls[u].error = "EvaluationError"

\* the caller calls an extraction operation in slot t
OpBegins(t) == started' = started + 1 /\ last' \in Ops /\ calls'[t] # calls[t]

\* C2: an extraction operation called while the session holds no browser handle
\* rejects with the not-initialized error at once, invokes neither
\* browser.newPage() nor page.goto, and leaves handle, processes, page contexts
\* and options as they were.
C2_NotInitialized ==
  [][\A t \in Slots :
       (browser = 0 /\ OpBegins(t)) =>
          /\ Completed(calls'[t])
          /\ calls'[t].outcome = "rejected"
          /\ calls'[t].error = "NotInitialized"
          /\ calls'[t].page = 0
          /\ calls'[t].navs = 0
          /\ UNCHANGED <<options, browser, procs, closeCalls, launches, pages, pageReqs>>]_vars

\* an operation called after a completed close() has rejected
C2_Witness ==
  \E t \in Slots :
    /\ calls[t].kind \in Ops /\ Completed(calls[t])
    /\ calls[t].error = "NotInitialized"
    /\ calls[t].prev = "close"
    /\ \E b \in DOMAIN procs : procs[b] = "terminated"

\* C3: with an awaiting caller every close() returns and leaves the handle
\* absent; one that found a handle invoked browser.close() once on a process
\* that is then terminated, and one that directly follows another close()
\* found no handle and invoked nothing.
C3_CloseTwice ==
  \A t \in Slots :
    LET c == calls[t]
    IN (c.kind = "close" /\ Completed(c)) =>
         /\ c.outcome = "returned"
         /\ browser = 0
         /\ c.b # 0 => (c.terminated = 1 /\ procs[c.b] = "terminated" /\ closeCalls[c.b] = 1)
         /\ c.prev = "close" => (c.b = 0 /\ c.terminated = 0)

\* a second close() has returned after the first one terminated a browser
C3_Witness ==
  \E t \in Slots :
    /\ calls[t].kind = "close" /\ Completed(calls[t]) /\ calls[t].prev = "close"
    /\ \E b \in DOMAIN procs : procs[b] = "terminated" /\ closeCalls[b] = 1

Idle == \A t \in Slots : calls[t].pc \in {"idle", "done"}

Launched == {b \in DOMAIN procs : procs[b] # "none"}

\* C4: after init() calls only (every call so far was an init(), all have
\* completed), at most one browser process was started and every running
\* process is the one the handle refers to.
C4_InitIdempotent ==
  (Idle /\ started = launches) =>
     /\ Cardinality(Launched) <= 1
     /\ \A b \in Launched : procs[b] = "live" => browser = b

\* C5: with an awaiting caller, once the close() that follows a single init()
\* and the operations after it has returned, no browser process runs, no page
\* context is open and the handle is absent.
C5_ShutdownReleases ==
  \A t \in Slots :
    LET c == calls[t]
    IN (c.kind = "close" /\ Completed(c) /\ launches = 1) =>
         /\ \A b \in DOMAIN procs : procs[b] # "live"
         /\ \A p \in DOMAIN pages : pages[p].status # "open"
         /\ browser = 0

\* close() has returned after init() and an operation that held a page context
C5_Witness ==
  \E t \in Slots :
    /\ calls[t].kind = "close" /\ Completed(calls[t]) /\ calls[t].prev \in Ops
    /\ launches = 1 /\ procs[1] = "terminated"
    /\ pages[1].status = "closed"

(***************************************************************************)
(* Properties of the scroll loop                                           *)
(***************************************************************************)
\* C6 as stated: every call of scroll() that has ended made exactly
\* scrollCount scroll evaluations and waited scrollCount delays of the
\* configured length.
C6_ExactlyN ==
  \A t \in Slots :
    LET c == calls[t]
    IN c.loop \in {"returned", "rejected"} =>
         /\ c.scrolls = options.scrollCount
         /\ c.delays = options.scrollCount
         /\ c.waited >= options.scrollCount * options.delay

\* C6, amended: a call of scroll() that returns made exactly scrollCount scroll
\* evaluations, each followed by one delay of the configured length (none of
\* either for scrollCount = 0); a call that rejects, because a scroll
\* evaluation rejected, made at most scrollCount evaluations and waited one
\* delay after each one but the last.
C6_ExactlyNWhenReturned ==
  \A t \in Slots :
    LET c == calls[t]
    IN /\ c.loop = "returned" =>
            /\ c.scrolls = options.scrollCount
            /\ c.delays = options.scrollCount
            /\ c.waited = options.scrollCount * options.delay
       /\ c.loop = "rejected" =>
            /\ c.scrolls >= 1 /\ c.scrolls <= options.scrollCount
            /\ c.delays = c.scrolls - 1
            /\ c.waited = c.delays * options.delay

\* scroll() has returned after the three cycles of the default configuration
C6_Witness ==
  \E t \in Slots :
    /\ calls[t].loop = "returned"
    /\ options.scrollCount = 3 /\ options.delay = 2000
    /\ calls[t].scrolls = 3 /\ calls[t].delays = 3 /\ calls[t].waited = 6000

(***************************************************************************)
(* Properties of the extracted records                                     *)
(***************************************************************************)
Returned(c, kind) == c.kind = kind /\ Completed(c) /\ c.outcome = "returned"

\* s has a /pin/<digits> segment
HasPinSegment(s) ==
  \E i \in 1..Len(s) :
    /\ i + Len(PinPrefix) <= Len(s)
    /\ \A k \in 1..Len(PinPrefix) : s[i + k - 1] = PinPrefix[k]
    /\ s[i + Len(PinPrefix)] \in Digits

\* the pin card has a link whose href yields a pin identifier
Gated(el) ==
  /\ el.link.some
  /\ el.link.v.href.some
  /\ HasPinSegment(el.link.v.href.v)

GatedCards(doc) == {j \in 1..Len(doc) : Gated(doc[j])}

\* the src attribute of the element's image, "" without one
SrcOf(img) == IF img.some /\ img.v.src.some THEN img.v.src.v ELSE <<>>

\* the src attribute of the element's image, else its data-src, else ""
ImageOf(img) ==
  IF img.some /\ img.v.src.some THEN img.v.src.v
  ELSE IF img.some /\ img.v.dataSrc.some THEN img.v.dataSrc.v
  ELSE <<>>

\* C7: searchPins and getBoardPins return nothing for a pin card whose link
\* yields no pin identifier: getBoardPins returns one record per card that
\* yields one, each made of that card's href and image, searchPins at most one
\* string per such card, each the rewritten image of one; and getPinDetails returns null exactly when its URL has
\* no /pin/<digits> segment.
C7_IdentifierGate ==
  \A t \in Slots :
    LET c == calls[t]
    IN /\ Returned(c, "getBoardPins") =>
            /\ Len(c.result) = Cardinality(GatedCards(c.doc))
            /\ \A k \in 1..Len(c.result) :
                 \E j \in GatedCards(c.doc) :
                   /\ c.result[k].pinterestUrl = Origin \o c.doc[j].link.v.href.v
                   /\ c.result[k].imageUrl = SrcOf(c.doc[j].img)
                   /\ c.result[k].id # <<>>
       /\ Returned(c, "searchPins") =>
            /\ Len(c.result) <= Cardinality(GatedCards(c.doc))
            /\ \A k \in 1..Len(c.result) :
                 \E j \in GatedCards(c.doc) : c.result[k] = Rewrite(ImageOf(c.doc[j].img))
       /\ Returned(c, "getPinDetails") => (c.result.some <=> HasPinSegment(c.url))

\* getBoardPins has returned one record for two pin cards, the first of which
\* has a link without a pin identifier
C7_Witness ==
  \E t \in Slots :
    /\ Returned(calls[t], "getBoardPins")
    /\ Len(calls[t].doc) = 2
    /\ calls[t].doc[1].link.some /\ ~Gated(calls[t].doc[1])
    /\ Gated(calls[t].doc[2])
    /\ Len(calls[t].result) = 1

\* C8: every string searchPins returns is non-empty and contains no "236x".
C8_NoLowRes ==
  \A t \in Slots :
    LET c == calls[t]
    IN Returned(c, "searchPins") =>
         \A k \in 1..Len(c.result) :
           c.result[k] # <<>> /\ Occurrences(c.result[k], LowRes) = {}

\* C9: the imageUrl of every Pin that getBoardPins and getPinDetails return has
\* no "236x" left where the image's src had one: it is the src with the size
\* token substituted.
C9_HighResImageUrl ==
  \A t \in Slots :
    LET c == calls[t]
    IN /\ Returned(c, "getBoardPins") =>
            \A k \in 1..Len(c.result) :
              \E j \in GatedCards(c.doc) :
                c.result[k].imageUrl = Rewrite(SrcOf(c.doc[j].img))
       /\ Returned(c, "getPinDetails") =>
            (c.result.some => c.result.v.imageUrl = Rewrite(SrcOf(c.doc.img)))

\* the number the digits of s spell, read from left to right; 0 without digits
RECURSIVE DigitsNumber(_, _)
DigitsNumber(s, acc) ==
  IF s = <<>> THEN acc
  ELSE DigitsNumber(Tail(s),
                    IF Head(s) \in Digits THEN 10 * acc + DigitVal(Head(s)) ELSE acc)

\* the number the text of an optional element stands for
CountOf(el) ==
  IF el.some /\ el.v.textContent.some THEN DigitsNumber(el.v.textContent.v, 0) ELSE 0

\* C10: repins of getPinDetails and pinCount of getUserProfile are the number
\* spelled by the digits of the element's text, every other character dropped;
\* 0 when the element is absent or its text has no digit; never negative and
\* never NaN.
C10_CountParsing ==
  \A t \in Slots :
    LET c == calls[t]
    IN /\ Returned(c, "getPinDetails") =>
            (c.result.some =>
               /\ c.result.v.repins = CountOf(c.doc.saveCount)
               /\ c.result.v.repins >= 0)
       /\ Returned(c, "getUserProfile") =>
            /\ Len(c.result) = Len(c.doc)
            /\ \A k \in 1..Len(c.result) :
                 /\ c.result[k].pinCount = CountOf(c.doc[k].count)
                 /\ c.result[k].pinCount >= 0

\* getPinDetails has returned 12 repins for the save count "1.2K saves"
C10_Witness ==
  \E t \in Slots :
    /\ Returned(calls[t], "getPinDetails")
    /\ calls[t].result.some
    /\ calls[t].doc.saveCount = Text(Some(SavesText))
    /\ calls[t].result.v.repins = 12

(***************************************************************************)
(* Properties of the error paths                                           *)
(***************************************************************************)
\* the step completes an extraction operation whose try block threw
Rejects(t) ==
  /\ calls[t].kind \in Ops
  /\ calls[t].pc = "pageClose" /\ calls[t].pending = "throw"
  /\ Completed(calls'[t])

\* page.goto was invoked once by an operation that got its page, and not at
\* all by any other call
OneNavigation(c) == c.navs = IF c.acquired THEN 1 ELSE 0

\* C11 as stated: an operation navigates once, and one whose navigation or
\* evaluation rejected rejects with that same error and without a result.
C11_SameError ==
  [][\A t \in Slots :
       /\ OneNavigation(calls'[t])
       /\ Rejects(t) =>
            /\ calls'[t].outcome = "rejected"
            /\ calls'[t].result = <<>>
            /\ calls'[t].error = calls[t].error]_vars

\* C11, amended: an operation navigates once, and one whose navigation or
\* evaluation rejected rejects without a result: with that same error when the
\* page.close() of its finally block resolves, and with the error of
\* page.close() when that rejects because close() terminated the browser
\* meanwhile.
C11_SameErrorUnlessCloseRejects ==
  [][\A t \in Slots :
       /\ OneNavigation(calls'[t])
       /\ Rejects(t) =>
            /\ calls'[t].outcome = "rejected"
            /\ calls'[t].result = <<>>
            /\ calls'[t].error =
                 IF PageOpen(calls[t]) THEN calls[t].error ELSE "TargetClosed"]_vars

\* one operation has rejected with the navigation timeout and another with the
\* error of its extracting evaluation, each after one navigation
C11_Witness ==
  \E t, u \in Slots :
    /\ calls[t].kind \in Ops /\ Completed(calls[t]) /\ calls[t].pending = "throw"
    /\ calls[t].outcome = "rejected" /\ calls[t].error = "NavigationTimeout"
    /\ calls[t].navs = 1
    /\ calls[u].kind \in Ops /\ Completed(calls[u]) /\ calls[u].pending = "throw"
    /\ calls[u].outcome = "rejected" /\ calls[u].error = "EvaluationError"
    /\ calls[u].navs = 1 /\ calls[u].loop = "returned"

(***************************************************************************)
(* Properties of the session state                                         *)
(***************************************************************************)
\* every field of the configuration is the one the caller supplied, or the
\* default where the caller supplied none
FromConstruction(opts) ==
  \E supplied \in SuppliedOptions :
    \A f \in DOMAIN DEFAULT_OPTIONS :
      opts[f] = IF f \in DOMAIN supplied THEN supplied[f] ELSE DEFAULT_OPTIONS[f]

\* C12: no step of init(), close() or an extraction operation changes the
\* configuration, which stays what the constructor merged from the supplied
\* options and the defaults headless = true, scrollCount = 3, delay = 2000; and
\* no step of an extraction operation changes the browser handle.
C12_ConfigurationFixed ==
  [][/\ options' = options
     /\ FromConstruction(options')
     /\ DEFAULT_OPTIONS = [headless |-> TRUE, scrollCount |-> 3, delay |-> 2000]
     /\ \A t \in Slots :
          (calls'[t] # calls[t] /\ calls'[t].kind \in Ops) => browser' = browser]_vars

\* init(), an extraction operation that scrolled and close() have run on a
\* session constructed with headless = false and delay = 500
C12_Witness ==
  /\ options = [headless |-> FALSE, scrollCount |-> 3, delay |-> 500]
  /\ \E t \in Slots : calls[t].kind = "close" /\ Completed(calls[t]) /\ calls[t].b # 0
  /\ \E t \in Slots :
       /\ calls[t].kind \in Ops /\ Completed(calls[t])
       /\ calls[t].outcome = "returned" /\ calls[t].scrolls = 3

(***************************************************************************)
(* Properties of the page contexts                                         *)
(***************************************************************************)
\* C13: when an extraction operation has completed, the page context that
\* browser.newPage() created for it is closed, also when a later step of the
\* page preparation (setUserAgent, setViewport, setRequestInterception)
\* rejected.
C13_ReleasedOnFailedAcquisition ==
  \A t \in Slots :
    LET c == calls[t]
    IN (c.kind \in Ops /\ Completed(c) /\ c.page # 0) =>
         pages[c.page].status = "closed"

(***************************************************************************)
(* Properties of the order of the steps                                    *)
(***************************************************************************)
\* C14: within one call of scroll(), at most one scroll evaluation is in
\* progress; while one is, every earlier one has completed and the delay after
\* each of them has elapsed; while a delay runs, the evaluation before it has
\* completed and no other one has started; outside the loop every evaluation
\* has completed, followed by its delay unless it rejected.
C14_Alternation ==
  \A t \in Slots :
    LET c == calls[t]
    IN /\ c.scrolls - c.evals \in {0, 1}
       /\ c.pc = "scrollEval" =>
            c.scrolls = c.evals + 1 /\ c.delays = c.evals /\ c.i = c.delays
       /\ c.pc = "scrollDelay" =>
            c.evals = c.scrolls /\ c.delays = c.scrolls - 1 /\ c.i = c.delays
       /\ c.pc \notin {"scrollEval", "scrollDelay"} =>
            /\ c.evals = c.scrolls
            /\ c.delays = IF c.loop = "rejected" THEN c.scrolls - 1 ELSE c.scrolls

\* the third scroll evaluation of a call is in progress after two delays
C14_Witness ==
  \E t \in Slots :
    /\ calls[t].pc = "scrollEval"
    /\ calls[t].scrolls = 3 /\ calls[t].evals = 2 /\ calls[t].delays = 2

Scrolling == {"searchPins", "getBoardPins", "getUserProfile"}

Settling == {"getPinDetails", "getUserProfile"}

\* the awaited browser calls and timers of an operation up to its finally block
BeforeFinally ==
  {"newPage", "goto", "settle", "scrollEval", "scrollDelay", "extract"} \cup PrepareSteps

\* C15: an operation navigates only on the page it acquired; it waits, scrolls
\* and extracts only after its navigation resolved; its extracting evaluation
\* is invoked only when scroll() has returned after scrollCount cycles
\* (searchPins, getBoardPins, getUserProfile) and the fixed delay has elapsed
\* (getPinDetails, getUserProfile); it invokes page.close() once, in its finally
\* block, when the extraction has resolved or a step has rejected, never while
\* a step up to the extraction is in progress; getPinDetails never scrolls; and
\* getUserProfile scrolls only after its fixed delay.
C15_FixedOrder ==
  \A t \in Slots :
    LET c == calls[t]
    IN c.kind \in Ops =>
         /\ c.navs >= 1 => c.acquired
         /\ c.navigated => c.navs = 1
         /\ (c.pc \in {"settle", "scrollEval", "scrollDelay", "extract"}
               \/ c.settled > 0 \/ c.scrolls > 0 \/ c.pending = "return") => c.navigated
         /\ (c.pc = "extract" \/ c.pending = "return") =>
              /\ c.kind \in Scrolling =>
                   /\ c.loop = "returned"
                   /\ c.scrolls = options.scrollCount
                   /\ c.evals = options.scrollCount
                   /\ c.delays = options.scrollCount
              /\ c.kind \in Settling => c.settled = SettleMs
         /\ c.pc \in BeforeFinally => c.closes = 0 /\ c.pending = "none"
         /\ c.closes <= 1
         /\ c.closes = 1 => c.pc \in {"pageClose", "done"} /\ c.pending \in {"return", "throw"}
         /\ c.pending = "return" => c.closes = 1
         /\ c.kind = "getPinDetails" => c.scrolls = 0 /\ c.loop = "none"
         /\ (c.kind = "getUserProfile" /\ c.scrolls >= 1) => c.settled = SettleMs

\* the extracting evaluation of getUserProfile is in progress after the fixed
\* delay and three scroll cycles, and getPinDetails has returned
C15_Witness ==
  \E t, u \in Slots :
    /\ calls[t].kind = "getUserProfile" /\ calls[t].pc = "extract"
    /\ calls[t].settled = SettleMs /\ calls[t].scrolls = 3 /\ calls[t].delays = 3
    /\ Returned(calls[u], "getPinDetails") /\ calls[u].closes = 1

(***************************************************************************)
(* Properties of concurrent calls                                          *)
(***************************************************************************)
InFlight(c) == c.pc \notin {"idle", "done"}

\* the operation passed the handle check of newPage() and the browser it found
\* has been terminated since
Stranded(c) == c.kind \in Ops /\ InFlight(c) /\ c.b # 0 /\ procs[c.b] = "terminated"

\* C16: nothing makes close() wait for the operations in flight: a
\* browser.close() that was invoked can resolve whatever they are doing; and an
\* operation that passed the handle check and is in flight when that happens
\* has no page context left, so that none of the browser calls it still makes
\* (browser.newPage, the preparation, page.goto, page.evaluate, page.close) can
\* resolve.
C16_UnprotectedAgainstClose ==
  \A t \in Slots :
    /\ calls[t].pc = "browserClose" => ENABLED BrowserCloseResolve(t)
    /\ Stranded(calls[t]) =>
         /\ ~PageOpen(calls[t])
         /\ ~ENABLED (NewPageResolve(t) \/ PrepareResolve(t) \/ GotoResolve(t)
                        \/ ScrollEvalResolve(t) \/ ExtractResolve(t, FALSE)
                        \/ PageCloseResolve(t))

\* close() has terminated the browser and cleared the handle while an
\* operation that had acquired its page was navigating, scrolling or
\* extracting
C16_Witness ==
  \E t, u \in Slots :
    /\ Stranded(calls[t]) /\ calls[t].acquired
    /\ calls[t].pc \in {"goto", "scrollEval", "extract"}
    /\ calls[u].kind = "close" /\ Completed(calls[u]) /\ calls[u].b = calls[t].b
    /\ browser = 0

\* C17: however the caller's close() calls interleave, browser.close() is
\* invoked at most once on each browser process, and once close() calls are
\* all that is left and all have completed, the handle is absent.
C17_TerminateOnce ==
  /\ \A b \in DOMAIN procs : closeCalls[b] <= 1
  /\ (Idle /\ \A t \in Slots : calls[t].kind = "close") => browser = 0

OpenPages == {p \in DOMAIN pages : pages[p].status = "open"}

OpsInFlight == {t \in Slots : calls[t].kind \in Ops /\ InFlight(calls[t])}

\* no close() was called that found a browser, and init() at most once
OneSessionNoClose == launches <= 1 /\ \A b \in DOMAIN procs : closeCalls[b] = 0

\* no two calls have the same page context, and an operation that got its page
\* from newPage() invoked page.close() once when it has completed, on a page
\* that is closed then
OwnPageClosedOnce ==
  /\ \A t, u \in Slots :
       (t # u /\ calls[t].page # 0) => calls[t].page # calls[u].page
  /\ \A t \in Slots :
       LET c == calls[t]
       IN /\ c.closes <= 1
          /\ (c.kind \in Ops /\ Completed(c) /\ c.acquired) =>
                c.closes = 1 /\ pages[c.page].status = "closed"

\* C18: while extraction operations interleave on one initialized session and
\* close() is not called, every operation has a page context of its own, closes
\* the one it acquired exactly once, and there are never more page contexts
\* open than operations in flight.
C18_PagesIsolated ==
  OneSessionNoClose =>
    /\ OwnPageClosedOnce
    /\ Cardinality(OpenPages) <= Cardinality(OpsInFlight)

C20_CompletesAndReleases ==
  /\ \A t \in 1..MaxInFlight :
       (calls[t].kind \in Ops /\ InFlight(calls[t])) ~> Completed(calls[t])
  /\ \A p \in 1..MaxPages :
       (pages[p].status = "open") ~> (pages[p].status = "closed")

=============================================================================
